---- MODULE Spec2Model ----
(***************************************************************************)
(* A state-machine model of the Flask blog of src/main.py and src/forms.py:*)
(* the users, blog_posts and comments tables, the login session each       *)
(* client holds through Flask-Login, and one action per route handler.     *)
(* register and show_post are taken in two steps each (the read, then the  *)
(* write and commit), so that requests of two clients interleave between   *)
(* them.  The database is the default one, SQLite: ids are one more than   *)
(* the largest id of the table, unique and NOT NULL constraints are        *)
(* enforced, foreign keys are not.  Spec and SpecH start from an empty     *)
(* database and anonymous clients; SpecStale starts with a session cookie  *)
(* whose user is not in the database.                                      *)
(***************************************************************************)
EXTENDS Integers, Sequences, FiniteSets, TLC

(***************************************************************************)
(* Bounds of the model.                                                    *)
(***************************************************************************)
\* The largest id the blog_posts table gives out.
MaxPostId == 2
\* The largest number of rows of the comments table.
MaxComments == 1

\* The clients (browsers), each with a session cookie of its own.
Clients == {"c1", "c2"}

(***************************************************************************)
(* Values.                                                                 *)
(***************************************************************************)
\* The session cookie carries no "_user_id" key.
NoUserId == 0
\* A NULL column value.
NULL == 0
\* No request of the client is in flight.
Idle == [op |-> "idle"]

\* An e-mail address local@domain.
Addr(l, d) == [local |-> l, domain |-> d]
AnnMail == Addr("a", "x.com")
BobMail == Addr("b", "x.com")
NoMail == Addr("", "")

\* Salts drawn by generate_password_hash.
Salts == {"s1"}

\* The requests a client may send to /register.
RegisterInputs ==
    { [method |-> "POST", email |-> AnnMail, password |-> "longpw123", name |-> "Ann"],
      [method |-> "POST", email |-> BobMail, password |-> "other1234", name |-> "Bob"],
      [method |-> "POST", email |-> BobMail, password |-> "short", name |-> "Bob"],
      [method |-> "GET", email |-> NoMail, password |-> "", name |-> ""] }

\* The requests a client may send to /login.
LoginInputs ==
    { [method |-> "POST", email |-> AnnMail, password |-> "longpw123"],
      [method |-> "POST", email |-> AnnMail, password |-> "other1234"],
      [method |-> "POST", email |-> BobMail, password |-> "other1234"],
      [method |-> "POST", email |-> BobMail, password |-> "short"],
      [method |-> "GET", email |-> NoMail, password |-> ""] }

\* An image URL scheme://host/path, the host as its dot-separated labels.
Url(scheme, host, path) == [scheme |-> scheme, host |-> host, path |-> path]
NoUrl == Url("", <<>>, "")

\* The requests a client may send to /new-post and /edit-post/<id>.
PostInputs ==
    { [method |-> "POST", title |-> "T", subtitle |-> "S", body |-> "B",
       img_url |-> Url("http", <<"i", "example">>, "/u.png")],
      [method |-> "POST", title |-> "U", subtitle |-> "S2", body |-> "B2",
       img_url |-> Url("https", <<"img", "example">>, "/v.png")],
      [method |-> "POST", title |-> "T", subtitle |-> "S", body |-> "B",
       img_url |-> Url("http", <<"i">>, "/u.png")],
      [method |-> "GET", title |-> "", subtitle |-> "", body |-> "", img_url |-> NoUrl] }

\* The requests a client may send to /post/<id>.
CommentInputs ==
    { [method |-> "POST", comment_text |-> "nice"],
      [method |-> "POST", comment_text |-> ""],
      [method |-> "GET", comment_text |-> ""] }

\* The post ids a request may name.
PostIds == 1..MaxPostId

\* What date.today().strftime("%B %d, %Y") may give.
Dates == {"November 01, 2026"}

VARIABLES
    users,       \* the users table: a set of rows
    posts,       \* the blog_posts table
    comments,    \* the comments table
    session,     \* session[c]: the "_user_id" of client c's session, or NoUserId
    req,         \* req[c]: the request of client c that is between two steps
    registered,  \* history: registered[id] is the plaintext user id signed up with
    last         \* history: the request step taken last (kept only under SpecH)

vars == <<users, posts, comments, session, req, registered, last>>

(***************************************************************************)
(* Form validation (src/forms.py).                                         *)
(***************************************************************************)
DataRequired(s) == s /= ""

\* wtforms Email(): a local part and a domain part around the "@".
Email(e) == e.local /= "" /\ e.domain /= ""

pass_min == 8

\* Mutant of Length: no minimum.
Length_no_min(s) == Len(s) >= 0

\* Length(min=8) of the password fields.
Length(s) == Len(s) >= pass_min

RegisterForm(f) ==
    /\ f.email /= NoMail /\ Email(f.email)
    /\ DataRequired(f.password) /\ Length(f.password)
    /\ DataRequired(f.name)

LoginForm(f) ==
    /\ f.email /= NoMail /\ Email(f.email)
    /\ DataRequired(f.password) /\ Length(f.password)

\* wtforms URL(): a scheme, and a host name of at least two labels (require_tld).
URL(u) == u.scheme /= "" /\ Len(u.host) >= 2 /\ \A i \in 1..Len(u.host) : u.host[i] /= ""

CreatePostForm(f) ==
    /\ DataRequired(f.title)
    /\ DataRequired(f.subtitle)
    /\ f.img_url /= NoUrl /\ URL(f.img_url)
    /\ DataRequired(f.body)

CommentForm(f) == DataRequired(f.comment_text)

\* FlaskForm.validate_on_submit: a submitted (POST) form whose validators pass.
validate_on_submit(f, valid) == f.method = "POST" /\ valid

(***************************************************************************)
(* Password digests (werkzeug.security as called in register and login).   *)
(***************************************************************************)
\* PBKDF2-HMAC-SHA256 of the password under the salt, as a symbolic term:
\* two digests are equal exactly when salt and password are.
pbkdf2_hmac(salt, password) == [prf |-> "hmac-sha256", salt |-> salt, data |-> password]

generate_password_hash(password, salt) ==
    [method |-> "pbkdf2:sha256", salt |-> salt, hash |-> pbkdf2_hmac(salt, password)]

\* Mutant of check_password_hash: the digest is not compared.
check_password_hash_any(pwhash, password) == pwhash.method = "pbkdf2:sha256"

check_password_hash(pwhash, password) ==
    /\ pwhash.method = "pbkdf2:sha256"
    /\ pbkdf2_hmac(pwhash.salt, password) = pwhash.hash

(***************************************************************************)
(* The repository.                                                         *)
(***************************************************************************)
Max(S) == CHOOSE x \in S : \A y \in S : y <= x

\* Mutant of NextId: ids counted from the number of rows, the first one 0.
NextId_count(table) == Cardinality(table)

\* An INTEGER PRIMARY KEY column: one more than the largest id in the table.
NextId(table) == IF table = {} THEN 1 ELSE Max({r.id : r \in table}) + 1

\* db.select(User).where(User.email == email) ... .scalar()
UsersByEmail(email) == {u \in users : u.email = email}

\* Mutant of UniqueEmail: the column without its unique constraint.
UniqueEmail_unconstrained(email) == TRUE

\* users.email is declared unique=True: the INSERT of a second row with the
\* same e-mail raises IntegrityError.
UniqueEmail(email) == UsersByEmail(email) = {}

\* db.get_or_404(BlogPost, post_id): the row, or no row (abort 404).
PostsById(post_id) == {p \in posts : p.id = post_id}

\* Mutant of UniqueTitle: the column without its unique constraint.
UniqueTitle_unconstrained(title, except_id) == TRUE

\* blog_posts.title is declared unique=True: no row other than the one
\* written (except_id, NULL for an INSERT) may have the title.
UniqueTitle(title, except_id) == \A p \in posts : p.title = title => p.id = except_id

\* The comments of a post: Comment.blog_id = post.id.
CommentsOf(post_id) == {cm \in comments : cm.blog_id = post_id}

\* db.select(BlogPost) ... .scalars().all(): the rows in rowid order.
RECURSIVE SortById(_)
SortById(S) ==
    IF S = {} THEN <<>>
    ELSE LET m == CHOOSE x \in S : \A y \in S : x.id <= y.id
         IN <<m>> \o SortById(S \ {m})

\* Mutant of listAllPosts: .scalar() in place of .scalars().all().
listAllPosts_scalar ==
    IF posts = {} THEN <<>>
    ELSE <<CHOOSE x \in posts : \A y \in posts : x.id <= y.id>>

listAllPosts == SortById(posts)

(***************************************************************************)
(* Flask-Login.                                                            *)
(***************************************************************************)
\* load_user: db.get_or_404(User, user_id).
load_user(user_id) ==
    IF \E u \in users : u.id = user_id
    THEN [kind |-> "User", id |-> user_id]
    ELSE [kind |-> "NotFound", id |-> NULL]

\* current_user of a request of client c: AnonymousUserMixin (which has no
\* attribute id) without a "_user_id", else what load_user gives.
current_user(c) ==
    IF session[c] = NoUserId
    THEN [kind |-> "Anonymous", id |-> NULL]
    ELSE load_user(session[c])

\* The step taken: the client, the handler step and how it ended.  It is
\* recorded when the history is on, and left alone when it is off.
HistoryOff == [client |-> "none", op |-> "off", outcome |-> "none"]
HistoryOn == [client |-> "none", op |-> "init", outcome |-> "none"]

Done(c, op, outcome) ==
    last' = IF last = HistoryOff THEN last
            ELSE [client |-> c, op |-> op, outcome |-> outcome]

(***************************************************************************)
(* Initial state: empty tables, every client anonymous.                    *)
(***************************************************************************)
Start ==
    /\ users = {}
    /\ posts = {}
    /\ comments = {}
    /\ session = [c \in Clients |-> NoUserId]
    /\ req = [c \in Clients |-> Idle]
    /\ registered = <<>>

Init == Start /\ last = HistoryOff

InitH == Start /\ last = HistoryOn

\* The application started on a new database (DB_URI, db.create_all()) while
\* client c1 still holds the session cookie, signed with the same
\* APP_SECRET_KEY, of user 1 of the database before (history on).
InitStale ==
    /\ users = {}
    /\ posts = {}
    /\ comments = {}
    /\ session = [c \in Clients |-> IF c = "c1" THEN 1 ELSE NoUserId]
    /\ req = [c \in Clients |-> Idle]
    /\ registered = <<>>
    /\ last = HistoryOn

(***************************************************************************)
(* /register, first step: validation and the lookup by e-mail.             *)
(***************************************************************************)
\* Mutant of register_lookup_outcome: the lookup by e-mail is skipped.
register_lookup_outcome_nolookup(f) ==
    IF ~validate_on_submit(f, RegisterForm(f)) THEN "render:register.html"
    ELSE "pending"

register_lookup_outcome(f) ==
    IF ~validate_on_submit(f, RegisterForm(f)) THEN "render:register.html"
    ELSE IF UsersByEmail(f.email) /= {} THEN "redirect:login"
    ELSE "pending"

register_lookup(c, f) ==
    /\ req[c] = Idle
    /\ req' = IF register_lookup_outcome(f) = "pending"
              THEN [req EXCEPT ![c] = [op |-> "register", form |-> f]]
              ELSE req
    /\ Done(c, "register_lookup", register_lookup_outcome(f))
    /\ UNCHANGED <<users, posts, comments, session, registered>>

(***************************************************************************)
(* /register, second step: hash, INSERT, commit, login_user.               *)
(***************************************************************************)
register_commit_outcome(c) ==
    IF UniqueEmail(req[c].form.email) THEN "redirect:get_all_posts"
    ELSE "IntegrityError"

register_commit(c, salt) ==
    /\ req[c] /= Idle /\ req[c].op = "register"
    /\ LET f == req[c].form
           new_user == [id |-> NextId(users),
                        email |-> f.email,
                        password |-> generate_password_hash(f.password, salt),
                        name |-> f.name]
       IN IF register_commit_outcome(c) = "redirect:get_all_posts"
          THEN /\ users' = users \cup {new_user}
               /\ registered' = (new_user.id :> f.password) @@ registered
               /\ session' = [session EXCEPT ![c] = new_user.id]
          ELSE UNCHANGED <<users, registered, session>>
    /\ Done(c, "register_commit", register_commit_outcome(c))
    /\ req' = [req EXCEPT ![c] = Idle]
    /\ UNCHANGED <<posts, comments>>

(***************************************************************************)
(* /login.                                                                 *)
(***************************************************************************)
login_outcome(f) ==
    IF ~validate_on_submit(f, LoginForm(f)) THEN "render:login.html"
    ELSE IF UsersByEmail(f.email) = {} THEN "flash:email-does-not-exist"
    ELSE LET user == CHOOSE u \in UsersByEmail(f.email) : TRUE
         IN IF ~check_password_hash(user.password, f.password)
            THEN "flash:password-incorrect"
            ELSE "redirect:get_all_posts"

\* Mutant of login: a failed attempt drops the session.
login_drops_session(c, f) ==
    /\ req[c] = Idle
    /\ IF login_outcome(f) = "redirect:get_all_posts"
       THEN LET user == CHOOSE u \in UsersByEmail(f.email) : TRUE
            IN session' = [session EXCEPT ![c] = user.id]
       ELSE session' = [session EXCEPT ![c] = NoUserId]
    /\ Done(c, "login", login_outcome(f))
    /\ UNCHANGED <<users, posts, comments, req, registered>>

login(c, f) ==
    /\ req[c] = Idle
    /\ IF login_outcome(f) = "redirect:get_all_posts"
       THEN LET user == CHOOSE u \in UsersByEmail(f.email) : TRUE
            IN session' = [session EXCEPT ![c] = user.id]
       ELSE UNCHANGED session
    /\ Done(c, "login", login_outcome(f))
    /\ UNCHANGED <<users, posts, comments, req, registered>>

(***************************************************************************)
(* /logout.  logout_user() first resolves the current user.                *)
(***************************************************************************)
logout_outcome(c) ==
    IF current_user(c).kind = "NotFound" THEN "NotFound"
    ELSE "redirect:get_all_posts"

\* Mutant of logout: the "_user_id" key stays in the session.
logout_keeps_session(c) ==
    /\ req[c] = Idle
    /\ Done(c, "logout", logout_outcome(c))
    /\ UNCHANGED <<users, posts, comments, session, req, registered>>

logout(c) ==
    /\ req[c] = Idle
    /\ session' = IF logout_outcome(c) = "redirect:get_all_posts"
                  THEN [session EXCEPT ![c] = NoUserId]
                  ELSE session
    /\ Done(c, "logout", logout_outcome(c))
    /\ UNCHANGED <<users, posts, comments, req, registered>>

(***************************************************************************)
(* The admin_only decorator: what it answers before the view is called,    *)
(* or "call" when it calls the view.  current_user.id raises               *)
(* AttributeError for the anonymous user, which has no id.                 *)
(***************************************************************************)
\* Mutant of admin_only: every logged-in user is let through.
admin_only_any_user(c) ==
    LET cu == current_user(c)
    IN IF cu.kind = "NotFound" THEN "NotFound"
       ELSE IF cu.kind = "Anonymous" THEN "AttributeError"
       ELSE "call"

admin_only(c) ==
    LET cu == current_user(c)
    IN IF cu.kind = "NotFound" THEN "NotFound"
       ELSE IF cu.kind = "Anonymous" THEN "AttributeError"
       ELSE IF cu.id /= 1 THEN "Forbidden"
       ELSE "call"

(***************************************************************************)
(* /new-post.                                                              *)
(***************************************************************************)
add_new_post_outcome(c, f) ==
    IF admin_only(c) /= "call" THEN admin_only(c)
    ELSE IF ~validate_on_submit(f, CreatePostForm(f)) THEN "render:make-post.html"
    ELSE IF ~UniqueTitle(f.title, NULL) THEN "IntegrityError"
    ELSE "redirect:get_all_posts"

add_new_post(c, f, today) ==
    /\ req[c] = Idle
    /\ IF add_new_post_outcome(c, f) = "redirect:get_all_posts"
       THEN /\ NextId(posts) <= MaxPostId
            /\ posts' = posts \cup
                 {[id |-> NextId(posts), title |-> f.title, subtitle |-> f.subtitle,
                   body |-> f.body, img_url |-> f.img_url,
                   author_id |-> current_user(c).id, date |-> today]}
       ELSE UNCHANGED posts
    /\ Done(c, "add_new_post", add_new_post_outcome(c, f))
    /\ UNCHANGED <<users, comments, session, req, registered>>

(***************************************************************************)
(* /edit-post/<post_id>.                                                   *)
(***************************************************************************)
\* Mutant of edit_post_outcome: the post is looked up before the gate.
edit_post_outcome_lookup_first(c, post_id, f) ==
    IF PostsById(post_id) = {} THEN "NotFound"
    ELSE IF admin_only(c) /= "call" THEN admin_only(c)
    ELSE IF ~validate_on_submit(f, CreatePostForm(f)) THEN "render:make-post.html"
    ELSE IF ~UniqueTitle(f.title, post_id) THEN "IntegrityError"
    ELSE "redirect:show_post"

edit_post_outcome(c, post_id, f) ==
    IF admin_only(c) /= "call" THEN admin_only(c)
    ELSE IF PostsById(post_id) = {} THEN "NotFound"
    ELSE IF ~validate_on_submit(f, CreatePostForm(f)) THEN "render:make-post.html"
    ELSE IF ~UniqueTitle(f.title, post_id) THEN "IntegrityError"
    ELSE "redirect:show_post"

\* Mutant of edit_post: the date is computed again, on a later day.
edit_post_redated(c, post_id, f) ==
    /\ req[c] = Idle
    /\ IF edit_post_outcome(c, post_id, f) = "redirect:show_post"
       THEN LET post == CHOOSE p \in PostsById(post_id) : TRUE
            IN posts' = (posts \ {post}) \cup
                   {[post EXCEPT !.title = f.title, !.subtitle = f.subtitle,
                                 !.img_url = f.img_url,
                                 !.author_id = current_user(c).id,
                                 !.body = f.body,
                                 !.date = "November 02, 2026"]}
       ELSE UNCHANGED posts
    /\ Done(c, "edit_post", edit_post_outcome(c, post_id, f))
    /\ UNCHANGED <<users, comments, session, req, registered>>

edit_post(c, post_id, f) ==
    /\ req[c] = Idle
    /\ IF edit_post_outcome(c, post_id, f) = "redirect:show_post"
       THEN LET post == CHOOSE p \in PostsById(post_id) : TRUE
            IN posts' = (posts \ {post}) \cup
                   {[post EXCEPT !.title = f.title, !.subtitle = f.subtitle,
                                 !.img_url = f.img_url,
                                 !.author_id = current_user(c).id,
                                 !.body = f.body]}
       ELSE UNCHANGED posts
    /\ Done(c, "edit_post", edit_post_outcome(c, post_id, f))
    /\ UNCHANGED <<users, comments, session, req, registered>>

(***************************************************************************)
(* /delete/<post_id>.  BlogPost.comments has no delete cascade: the unit   *)
(* of work sets blog_id of the post's comments to NULL before the DELETE.  *)
(* comments.blog_id is declared Mapped[int], NOT NULL in a table made by   *)
(* db.create_all(), where that UPDATE raises IntegrityError; in a table    *)
(* whose column admits NULL the comments stay, with blog_id NULL.          *)
(***************************************************************************)
\* Mutant of delete_post_outcomes: a missing post is not reported.
delete_post_outcomes_no_404(c, post_id) ==
    IF admin_only(c) /= "call" THEN {admin_only(c)}
    ELSE IF CommentsOf(post_id) = {} THEN {"redirect:get_all_posts"}
    ELSE {"IntegrityError", "redirect:get_all_posts"}

delete_post_outcomes(c, post_id) ==
    IF admin_only(c) /= "call" THEN {admin_only(c)}
    ELSE IF PostsById(post_id) = {} THEN {"NotFound"}
    ELSE IF CommentsOf(post_id) = {} THEN {"redirect:get_all_posts"}
    ELSE {"IntegrityError", "redirect:get_all_posts"}

\* The comments table after the DELETE of the post went through.
CommentsAfterDelete(post_id) ==
    {IF cm.blog_id = post_id THEN [cm EXCEPT !.blog_id = NULL] ELSE cm : cm \in comments}

delete_post(c, post_id) ==
    /\ req[c] = Idle
    /\ \E outcome \in delete_post_outcomes(c, post_id) :
          /\ IF outcome = "redirect:get_all_posts"
             THEN /\ comments' = CommentsAfterDelete(post_id)
                  /\ posts' = posts \ PostsById(post_id)
             ELSE UNCHANGED <<posts, comments>>
          /\ Done(c, "delete_post", outcome)
    /\ UNCHANGED <<users, session, req, registered>>

(***************************************************************************)
(* /post/<post_id>, first step: db.get_or_404(BlogPost, post_id) and the   *)
(* validation of the comment form.                                         *)
(***************************************************************************)
show_post_load_outcome(post_id, f) ==
    IF PostsById(post_id) = {} THEN "NotFound"
    ELSE IF ~validate_on_submit(f, CommentForm(f)) THEN "render:post.html"
    ELSE "pending"

show_post_load(c, post_id, f) ==
    /\ req[c] = Idle
    /\ req' = IF show_post_load_outcome(post_id, f) = "pending"
              THEN [req EXCEPT ![c] = [op |-> "show_post",
                                       form |-> f @@ [post_id |-> post_id]]]
              ELSE req
    /\ Done(c, "show_post_load", show_post_load_outcome(post_id, f))
    /\ UNCHANGED <<users, posts, comments, session, registered>>

(***************************************************************************)
(* /post/<post_id>, second step: Comment(author_id=current_user.id, ...),  *)
(* the INSERT and the commit.                                              *)
(***************************************************************************)
\* Mutant of show_post_insert_outcome: the anonymous user has an id, None.
show_post_insert_outcome_anonymous_id(c) ==
    IF current_user(c).kind = "NotFound" THEN "NotFound" ELSE "render:post.html"

show_post_insert_outcome(c) ==
    LET cu == current_user(c)
    IN IF cu.kind = "NotFound" THEN "NotFound"
       ELSE IF cu.kind = "Anonymous" THEN "AttributeError"
       ELSE "render:post.html"

\* Mutant of show_post_insert: author_id and blog_id take each other's value.
show_post_insert_swapped(c) ==
    /\ req[c] /= Idle /\ req[c].op = "show_post"
    /\ IF show_post_insert_outcome(c) = "render:post.html"
       THEN /\ Cardinality(comments) < MaxComments
            /\ comments' = comments \cup
                 {[id |-> NextId(comments), text |-> req[c].form.comment_text,
                   author_id |-> req[c].form.post_id,
                   blog_id |-> current_user(c).id]}
       ELSE UNCHANGED comments
    /\ Done(c, "show_post_insert", show_post_insert_outcome(c))
    /\ req' = [req EXCEPT ![c] = Idle]
    /\ UNCHANGED <<users, posts, session, registered>>

show_post_insert(c) ==
    /\ req[c] /= Idle /\ req[c].op = "show_post"
    /\ IF show_post_insert_outcome(c) = "render:post.html"
       THEN /\ Cardinality(comments) < MaxComments
            /\ comments' = comments \cup
                 {[id |-> NextId(comments), text |-> req[c].form.comment_text,
                   author_id |-> current_user(c).id,
                   blog_id |-> req[c].form.post_id]}
       ELSE UNCHANGED comments
    /\ Done(c, "show_post_insert", show_post_insert_outcome(c))
    /\ req' = [req EXCEPT ![c] = Idle]
    /\ UNCHANGED <<users, posts, session, registered>>

Next ==
    \/ \E c \in Clients, f \in RegisterInputs : register_lookup(c, f)
    \/ \E c \in Clients, s \in Salts : register_commit(c, s)
    \/ \E c \in Clients, f \in LoginInputs : login(c, f)
    \/ \E c \in Clients : logout(c)
    \/ \E c \in Clients, f \in PostInputs, d \in Dates : add_new_post(c, f, d)
    \/ \E c \in Clients, i \in PostIds, f \in PostInputs : edit_post(c, i, f)
    \/ \E c \in Clients, i \in PostIds : delete_post(c, i)
    \/ \E c \in Clients, i \in PostIds, f \in CommentInputs : show_post_load(c, i, f)
    \/ \E c \in Clients : show_post_insert(c)

\* The program, the history of the last step off.
Spec == Init /\ [][Next]_vars

\* The program, the history of the last step on.
SpecH == InitH /\ [][Next]_vars

\* The program started with a session cookie that outlived its user.
SpecStale == InitStale /\ [][Next]_vars

(***************************************************************************)
(* Helpers of the properties.                                              *)
(***************************************************************************)
\* The request of client c comes from a logged-in user other than user 1.
OtherUser(c) == current_user(c).kind = "User" /\ current_user(c).id /= 1

\* The request of client c carries no logged-in identity.
AnonymousClient(c) == session[c] = NoUserId

\* What an authorization gate answers when it turns a request away.
GateRefusals == {"Unauthorized", "Forbidden", "redirect:login"}

GatedOps == {"add_new_post", "edit_post", "delete_post"}

\* A submitted register form that passes validation.
ValidRegister(f) == validate_on_submit(f, RegisterForm(f))

(***************************************************************************)
(* C1: in every reachable state, whatever the interleaving of the lookup   *)
(* and insert steps of register requests, no two rows of the users table   *)
(* have the same e-mail.                                                   *)
(***************************************************************************)
C1_OneUserPerEmail == \A u, v \in users : u.email = v.email => u = v

\* A register request passed its lookup, and its e-mail has been stored by
\* another request since: its insert step is about to run.
C1_Witness ==
    \E c \in Clients :
        /\ req[c] /= Idle /\ req[c].op = "register"
        /\ UsersByEmail(req[c].form.email) /= {}

(***************************************************************************)
(* C2: a valid register request whose e-mail is stored for some user is    *)
(* answered with a redirect to the login view, and no step handling it     *)
(* changes the users table or any session, or leaves a request pending.    *)
(***************************************************************************)
C2_DuplicateRegister ==
    \A f \in RegisterInputs :
        (ValidRegister(f) /\ UsersByEmail(f.email) /= {}) =>
            /\ register_lookup_outcome(f) = "redirect:login"
            /\ \A c \in Clients :
                  ~ENABLED (/\ register_lookup(c, f)
                            /\ ~UNCHANGED <<users, posts, comments, session, req>>)

\* A user has signed up, and an anonymous client can send the same e-mail.
C2_Witness ==
    \E c \in Clients, f \in RegisterInputs :
        /\ ValidRegister(f) /\ UsersByEmail(f.email) /= {}
        /\ req[c] = Idle /\ session[c] = NoUserId

(***************************************************************************)
(* C3: add_new_post, edit_post and delete_post change a table only for a   *)
(* request of user 1; a request of any other logged-in user is answered    *)
(* Forbidden and leaves users, posts and comments as they are.             *)
(***************************************************************************)
\* A step of one of the three gated handlers for a request of client c.
GatedStep(c) ==
    \/ \E f \in PostInputs, d \in Dates : add_new_post(c, f, d)
    \/ \E i \in PostIds, f \in PostInputs : edit_post(c, i, f)
    \/ \E i \in PostIds : delete_post(c, i)

C3_OnlyAdminMutates ==
    \A c \in Clients :
        /\ OtherUser(c) =>
              /\ \A f \in PostInputs : add_new_post_outcome(c, f) = "Forbidden"
              /\ \A i \in PostIds, f \in PostInputs :
                     edit_post_outcome(c, i, f) = "Forbidden"
              /\ \A i \in PostIds : delete_post_outcomes(c, i) = {"Forbidden"}
        /\ ~(current_user(c).kind = "User" /\ current_user(c).id = 1) =>
              ~ENABLED (GatedStep(c) /\ ~UNCHANGED <<users, posts, comments>>)

\* User 2 is logged in at some client while a post of user 1 is in the list
\* of all posts.
C3_Witness ==
    \E c \in Clients :
        /\ OtherUser(c) /\ session[c] = 2 /\ req[c] = Idle
        /\ \E i \in 1..Len(listAllPosts) : listAllPosts[i].author_id = 1

(***************************************************************************)
(* C4: an anonymous request to add_new_post, edit_post or delete_post is   *)
(* answered by the gate (Unauthorized, a redirect to login, or Forbidden). *)
(* The code answers it with an unhandled AttributeError.                   *)
(***************************************************************************)
C4_AnonymousRefused ==
    [][(last'.op \in GatedOps /\ AnonymousClient(last'.client))
          => (last'.outcome \in GateRefusals /\ UNCHANGED <<posts, comments>>)]_vars

C6_AnonymousCommentRefused ==
    [][(last'.op = "show_post_insert" /\ AnonymousClient(last'.client))
          => (last'.outcome \in GateRefusals /\ comments' = comments)]_vars

(***************************************************************************)
(* C7: a login request is answered by issuing a session exactly when a     *)
(* user with the e-mail exists and the password is the one that user       *)
(* signed up with, and the session issued is that user's id; otherwise the *)
(* client's session stays as it was.                                       *)
(***************************************************************************)
\* The users with the e-mail of f who signed up with the password of f.
Matching(f) == {u \in users : u.email = f.email /\ registered[u.id] = f.password}

\* What a login step of client c with form f must leave in c's session.
LoginPost(c, f) ==
    IF Matching(f) /= {}
    THEN \E u \in Matching(f) : session'[c] = u.id
    ELSE session'[c] = session[c]

C7_LoginIffCredentials ==
    \A f \in LoginInputs :
        /\ login_outcome(f) = "redirect:get_all_posts" <=> Matching(f) /= {}
        /\ \A c \in Clients :
              /\ req[c] = Idle => ENABLED (login(c, f) /\ LoginPost(c, f))
              /\ ~ENABLED (login(c, f) /\ ~LoginPost(c, f))

\* Two clients hold a session of the same user: one of them logged in.
C7_Witness ==
    \E c, d \in Clients : c /= d /\ session[c] /= NoUserId /\ session[c] = session[d]

(***************************************************************************)
(* C8: a login request with an unknown e-mail, or with a password other    *)
(* than the one the user signed up with, leaves every session and the      *)
(* users, posts and comments tables as they are.                           *)
(***************************************************************************)
C8_FailedLoginFrame ==
    \A c \in Clients, f \in LoginInputs :
        Matching(f) = {} =>
            /\ req[c] = Idle => ENABLED login(c, f)
            /\ ~ENABLED (/\ login(c, f)
                         /\ ~UNCHANGED <<session, users, posts, comments>>)

\* A client is logged in while a login with a wrong password would fail.
C8_Witness ==
    \E c \in Clients, f \in LoginInputs :
        /\ session[c] /= NoUserId /\ req[c] = Idle
        /\ login_outcome(f) = "flash:password-incorrect"

(***************************************************************************)
(* C9: logout always succeeds and leaves the client anonymous, changing    *)
(* nothing else, so that a second logout changes nothing; an anonymous     *)
(* client is resolved to the anonymous user, and stays anonymous until a   *)
(* login or a registration of that client succeeds.                        *)
(***************************************************************************)
\* What a logout step of client c must leave.
LogoutPost(c) ==
    /\ session' = [session EXCEPT ![c] = NoUserId]
    /\ UNCHANGED <<users, posts, comments, req>>

\* A step in which client c logs in or signs up.
SignIn(c) ==
    \/ \E f \in LoginInputs : login(c, f) /\ login_outcome(f) = "redirect:get_all_posts"
    \/ \E s \in Salts :
          register_commit(c, s) /\ register_commit_outcome(c) = "redirect:get_all_posts"

C9_Logout ==
    \A c \in Clients :
        /\ logout_outcome(c) = "redirect:get_all_posts"
        /\ req[c] = Idle => ENABLED (logout(c) /\ LogoutPost(c))
        /\ ~ENABLED (logout(c) /\ ~LogoutPost(c))
        /\ AnonymousClient(c) =>
              /\ current_user(c).kind = "Anonymous"
              /\ ~ENABLED (Next /\ session'[c] /= NoUserId /\ ~SignIn(c))

\* A user has signed up and no client is logged in: a client logged out.
C9_Witness == users /= {} /\ \A c \in Clients : AnonymousClient(c)

(***************************************************************************)
(* C10: the insert step of a register request whose e-mail is unused adds  *)
(* exactly one user, with the e-mail and name of the form and a new id,    *)
(* and binds the client's session to it; the id is 1 exactly when the      *)
(* table was empty.                                                        *)
(***************************************************************************)
\* What the insert step of the pending register request of c must leave.
RegisterPost(c) ==
    \E u \in users' :
        /\ users' = users \cup {u}
        /\ \A v \in users : v.id /= u.id
        /\ u.email = req[c].form.email
        /\ u.name = req[c].form.name
        /\ session'[c] = u.id
        /\ (u.id = 1 <=> users = {})

C10_Register ==
    \A c \in Clients, s \in Salts :
        (req[c] /= Idle /\ req[c].op = "register"
            /\ UsersByEmail(req[c].form.email) = {}) =>
            /\ ENABLED (register_commit(c, s) /\ RegisterPost(c))
            /\ ~ENABLED (register_commit(c, s) /\ ~RegisterPost(c))

\* Two users have signed up, the second with id 2 and logged in.
C10_Witness ==
    /\ Cardinality(users) = 2
    /\ \E u \in users : u.id = 1
    /\ \E c \in Clients : session[c] = 2 /\ \E u \in users : u.id = 2

(***************************************************************************)
(* Definitions of C11.                                                     *)
(***************************************************************************)
\* A submitted register form whose password is too short.
ShortPassword(f) == f.method = "POST" /\ Len(f.password) < pass_min

\* The state predicate of C11.
ShortPasswordRejected ==
    \A c \in Clients, f \in RegisterInputs :
        ShortPassword(f) =>
            /\ register_lookup_outcome(f) = "render:register.html"
            /\ req[c] = Idle => ENABLED register_lookup(c, f)
            /\ ~ENABLED (/\ register_lookup(c, f)
                         /\ ~UNCHANGED <<users, posts, comments, session, req>>)

(***************************************************************************)
(* C11: a register request whose password is shorter than 8 characters is  *)
(* answered by redisplaying the form, whether or not its e-mail is stored: *)
(* no step handling it leaves a request pending for the lookup or insert,  *)
(* adds a user or changes a session.                                       *)
(***************************************************************************)
C11_ShortPasswordRejected == []ShortPasswordRejected

\* A client can send a too short password with an e-mail that is stored for
\* a user: the lookup, had it run, would have found it.
C11_Witness ==
    \E c \in Clients, f \in RegisterInputs :
        /\ ShortPassword(f) /\ req[c] = Idle
        /\ UsersByEmail(f.email) /= {}

(***************************************************************************)
(* C12: a request whose session names a user id that no row of the users   *)
(* table has is handled as an anonymous request.  No step that resolves    *)
(* the session of such a client (logout, the insert step of show_post, and *)
(* the three handlers behind admin_only) would then end NotFound, as none  *)
(* does for an anonymous client.  In the code load_user is                 *)
(* db.get_or_404: the request is aborted with 404.                         *)
(***************************************************************************)
\* The session of client c names a user that does not exist.
StaleClient(c) == session[c] /= NoUserId /\ \A u \in users : u.id /= session[c]

\* The handler steps that evaluate current_user.
ResolvingOps == GatedOps \cup {"logout", "show_post_insert"}

C12_StaleSessionAnonymous ==
    [][\A c \in Clients :
          (last'.client = c /\ last'.op \in ResolvingOps /\ StaleClient(c))
              => last'.outcome /= "NotFound"]_vars

(***************************************************************************)
(* C13: when delete_post on a post runs between the load step and the      *)
(* insert step of a comment submission on it, the insert fails: every      *)
(* insert step leaves the comment it stores, if any, with a blog_id that   *)
(* is the id of a post.  (The other order, the insert before the delete,   *)
(* is the cascade of C5.)  SQLite does not enforce comments.blog_id as a   *)
(* foreign key: the code stores the comment of a post that is gone.        *)
(***************************************************************************)
C13_NoOrphanFromRace ==
    [][last'.op = "show_post_insert"
          => \A cm \in comments' \ comments : \E p \in posts' : p.id = cm.blog_id]_vars

(***************************************************************************)
(* Definitions of C14.                                                     *)
(***************************************************************************)
\* The users with the given id.
UsersById(user_id) == {u \in users : u.id = user_id}

\* The state predicate of C14.
AuthorsResolve ==
    /\ \A p \in posts : UsersById(p.author_id) /= {}
    /\ \A cm \in comments : UsersById(cm.author_id) /= {}

(***************************************************************************)
(* C14: in every reachable state the author_id of every post and of every  *)
(* comment is the id of a row of the users table.                          *)
(***************************************************************************)
C14_AuthorsResolve == []AuthorsResolve

\* A post of user 1 and a comment of user 2 are stored, and some client is
\* anonymous.
C14_Witness ==
    /\ \E p \in posts : p.author_id = 1
    /\ \E cm \in comments : cm.author_id = 2
    /\ \E c \in Clients : AnonymousClient(c)

(***************************************************************************)
(* Definitions of C15.                                                     *)
(***************************************************************************)
\* The request of client c comes from user 1.
Privileged(c) == current_user(c).kind = "User" /\ current_user(c).id = 1

\* A submitted post form that passes validation.
ValidPost(f) == validate_on_submit(f, CreatePostForm(f))

\* What add_new_post of client c with form f must leave.
AddPost(c, f) ==
    /\ \E p \in posts' :
          /\ p \notin posts /\ posts' = posts \cup {p}
          /\ p.title = f.title /\ p.subtitle = f.subtitle
          /\ p.body = f.body /\ p.img_url = f.img_url
          /\ p.author_id = 1
          /\ \A q \in posts : q.id /= p.id
    /\ Cardinality({i \in 1..Len(listAllPosts') : listAllPosts'[i].title = f.title}) = 1
    /\ UNCHANGED <<users, comments, session, req>>

\* The state predicate of C15.
AddNewPostOk ==
    \A c \in Clients, f \in PostInputs, d \in Dates :
        (Privileged(c) /\ ValidPost(f) /\ \A q \in posts : q.title /= f.title) =>
            /\ add_new_post_outcome(c, f) = "redirect:get_all_posts"
            /\ (req[c] = Idle /\ NextId(posts) <= MaxPostId)
                  => ENABLED (add_new_post(c, f, d) /\ AddPost(c, f))
            /\ ~ENABLED (add_new_post(c, f, d) /\ ~AddPost(c, f))

(***************************************************************************)
(* C15: when user 1 submits a valid new post whose title no post has, the  *)
(* step adds exactly one post, with the title, subtitle, body and image    *)
(* URL of the form and user 1 as its author, leaves the other posts, the   *)
(* comments and the users as they were, and the list of all posts then     *)
(* has exactly one post with that title.                                   *)
(***************************************************************************)
C15_AddNewPost == []AddNewPostOk

\* User 1 can submit a second post, with a new title, while a post and a
\* comment are stored.
C15_Witness ==
    \E c \in Clients, f \in PostInputs :
        /\ Privileged(c) /\ req[c] = Idle /\ ValidPost(f)
        /\ posts /= {} /\ comments /= {} /\ NextId(posts) <= MaxPostId
        /\ \A q \in posts : q.title /= f.title

(***************************************************************************)
(* Definitions of C16.                                                     *)
(***************************************************************************)
\* Another post than post_id has the title.
TitleTaken(title, post_id) == \E q \in posts : q.title = title /\ q.id /= post_id

\* The state predicate of C16.
UniqueTitles ==
    /\ \A p, q \in posts : p.title = q.title => p = q
    /\ \A c \in Clients, f \in PostInputs :
          (Privileged(c) /\ ValidPost(f)) =>
              /\ TitleTaken(f.title, NULL) =>
                    /\ add_new_post_outcome(c, f) = "IntegrityError"
                    /\ \A d \in Dates :
                          ~ENABLED (add_new_post(c, f, d) /\ posts' /= posts)
              /\ \A i \in PostIds :
                    (PostsById(i) /= {} /\ TitleTaken(f.title, i)) =>
                        /\ edit_post_outcome(c, i, f) = "IntegrityError"
                        /\ ~ENABLED (edit_post(c, i, f) /\ posts' /= posts)

(***************************************************************************)
(* C16: in every reachable state no two posts have the same title; an      *)
(* add_new_post or edit_post of user 1 with a valid form whose title is    *)
(* the title of another post fails and leaves the posts table as it was.   *)
(***************************************************************************)
C16_UniqueTitles == []UniqueTitles

\* Two posts are stored and user 1 can submit, for the second, the title of
\* the first.
C16_Witness ==
    \E c \in Clients, f \in PostInputs, i \in PostIds :
        /\ Privileged(c) /\ req[c] = Idle /\ ValidPost(f)
        /\ Cardinality(posts) = 2
        /\ PostsById(i) /= {} /\ TitleTaken(f.title, i)

(***************************************************************************)
(* Definitions of C17.                                                     *)
(***************************************************************************)
\* What a successful edit_post of client c on post post_id with form f must
\* leave.
EditPost(c, post_id, f) ==
    /\ \E p \in PostsById(post_id), q \in posts' :
          /\ posts' = (posts \ {p}) \cup {q}
          /\ q.id = p.id /\ q.date = p.date
          /\ q.title = f.title /\ q.subtitle = f.subtitle
          /\ q.img_url = f.img_url /\ q.body = f.body
          /\ q.author_id = current_user(c).id
    /\ UNCHANGED <<users, comments, session, req>>

\* The state predicate of C17.
EditPostFrame ==
    \A c \in Clients, i \in PostIds, f \in PostInputs :
        edit_post_outcome(c, i, f) = "redirect:show_post" =>
            /\ Privileged(c) /\ ValidPost(f) /\ PostsById(i) /= {}
            /\ req[c] = Idle => ENABLED (edit_post(c, i, f) /\ EditPost(c, i, f))
            /\ ~ENABLED (edit_post(c, i, f) /\ ~EditPost(c, i, f))

(***************************************************************************)
(* C17: an edit_post that succeeds on a post writes the title, subtitle,   *)
(* image URL and body of the form to it and makes the editor its author;   *)
(* the id and the date of the post, the comments (those of the post        *)
(* included) and every other post stay as they were.                       *)
(***************************************************************************)
C17_EditPostFrame == []EditPostFrame

\* User 1 can edit a post that has a comment, with a form that changes its
\* title.
C17_Witness ==
    \E c \in Clients, i \in PostIds, f \in PostInputs :
        /\ req[c] = Idle /\ edit_post_outcome(c, i, f) = "redirect:show_post"
        /\ CommentsOf(i) /= {}
        /\ \E p \in PostsById(i) : p.title /= f.title

(***************************************************************************)
(* Definitions of C18.                                                     *)
(***************************************************************************)
\* What the insert step of the pending comment of client c must leave.
CommentPost(c) ==
    /\ \E cm \in comments' :
          /\ cm \notin comments /\ comments' = comments \cup {cm}
          /\ \A old \in comments : old.id /= cm.id
          /\ cm.text = req[c].form.comment_text
          /\ cm.author_id = session[c]
          /\ cm.blog_id = req[c].form.post_id
    /\ session' = session
    /\ UNCHANGED <<users, posts>>

\* The state predicate of C18.
CommentOk ==
    \A c \in Clients :
        (/\ req[c] /= Idle /\ req[c].op = "show_post"
         /\ current_user(c).kind = "User"
         /\ PostsById(req[c].form.post_id) /= {}) =>
            /\ req[c].form.comment_text /= ""
            /\ show_post_insert_outcome(c) = "render:post.html"
            /\ Cardinality(comments) < MaxComments
                  => ENABLED (show_post_insert(c) /\ CommentPost(c))
            /\ ~ENABLED (show_post_insert(c) /\ ~CommentPost(c))

PostStep(c, post_id) ==
    \/ \E f \in CommentInputs : show_post_load(c, post_id, f)
    \/ \E f \in PostInputs : edit_post(c, post_id, f)
    \/ delete_post(c, post_id)

\* The state predicate of C19.
NotFoundOk ==
    \A c \in Clients, i \in PostIds :
        Privileged(c) =>
            /\ PostsById(i) = {} =>
                  /\ \A f \in CommentInputs : show_post_load_outcome(i, f) = "NotFound"
                  /\ \A f \in PostInputs : edit_post_outcome(c, i, f) = "NotFound"
                  /\ delete_post_outcomes(c, i) = {"NotFound"}
                  /\ req[c] = Idle => ENABLED PostStep(c, i)
                  /\ ~ENABLED (/\ PostStep(c, i)
                               /\ ~UNCHANGED <<users, posts, comments, session, req>>)
            /\ ~ENABLED (/\ delete_post(c, i)
                         /\ posts' /= posts
                         /\ \E p \in posts' : p.id = i)

(***************************************************************************)
(* C19: a request of user 1 to view, edit or delete a post id that no post *)
(* has ends NotFound and leaves users, posts and comments as they were     *)
(* and no request pending.  A delete_post that succeeds leaves no post     *)
(* with the id, so that the same request sent again ends NotFound.         *)
(***************************************************************************)
C19_NotFound == []NotFoundOk

\* User 1 can ask for post 1, which was stored and is deleted, while post 2
\* is stored.
C19_Witness ==
    \E c \in Clients :
        /\ Privileged(c) /\ req[c] = Idle
        /\ PostsById(1) = {} /\ PostsById(2) /= {}

(***************************************************************************)
(* Definitions of C20.                                                     *)
(***************************************************************************)
\* A step of edit_post or delete_post of client c for post_id.
EditOrDelete(c, post_id) ==
    \/ \E f \in PostInputs : edit_post(c, post_id, f)
    \/ delete_post(c, post_id)

\* The state predicate of C20.
GateBeforeLookup ==
    \A c \in Clients, i \in PostIds :
        (OtherUser(c) /\ PostsById(i) = {}) =>
            /\ \A f \in PostInputs, j \in PostIds :
                  /\ edit_post_outcome(c, i, f) = "Forbidden"
                  /\ edit_post_outcome(c, j, f) = edit_post_outcome(c, i, f)
            /\ \A j \in PostIds :
                  /\ delete_post_outcomes(c, i) = {"Forbidden"}
                  /\ delete_post_outcomes(c, j) = delete_post_outcomes(c, i)
            /\ req[c] = Idle => ENABLED EditOrDelete(c, i)
            /\ ~ENABLED (/\ EditOrDelete(c, i)
                         /\ ~UNCHANGED <<users, posts, comments, session, req>>)

(***************************************************************************)
(* C20: edit_post and delete_post run admin_only before they look the post *)
(* up: a request of a logged-in user other than user 1 for a post id that  *)
(* no post has ends Forbidden, as it does for an id that a post has, and   *)
(* changes nothing.                                                        *)
(***************************************************************************)
C20_GateBeforeLookup == []GateBeforeLookup

\* User 2 can ask for post 1, which is deleted, and for post 2, which is
\* stored.
C20_Witness ==
    \E c \in Clients :
        /\ OtherUser(c) /\ req[c] = Idle
        /\ PostsById(1) = {} /\ PostsById(2) /= {}
====
